---- MODULE Spec2Model ----
(***************************************************************************)
(* The weather forecast pipeline of dagster_weather/weather_pipeline.py:   *)
(* fetch_information -> fetch_metadata -> fetch_forecast -> parse_forecast *)
(* -> plot_temperature, run as a Dagster job.                              *)
(*                                                                         *)
(* Representation of the program's values:                                 *)
(*   - a text is a sequence of tokens (characters or lexemes);             *)
(*   - a float is the integer number of tenths it denotes (90.1 is 901);   *)
(*   - a dict is a record, `k in d` is  k \in DOMAIN d;                    *)
(*   - a path is the sequence of its components, <<>> is the directory     *)
(*     the job runs in;                                                    *)
(*   - an exception is the name of its Python class.                       *)
(***************************************************************************)
EXTENDS Integers, Sequences, FiniteSets, TLC

\* Bounds of the model.
MaxRuns == 2
MaxPeriods == 3
MaxPoints == 45

Max(a, b) == IF a >= b THEN a ELSE b

NoError == "none"

(***************************************************************************)
(* Input Loader: parse_latlon, is_valid_email, read_email                  *)
(***************************************************************************)
Digits == {"0", "1", "2", "3", "4", "5", "6", "7", "8", "9"}

DigitVal(c) ==
    CASE c = "0" -> 0 [] c = "1" -> 1 [] c = "2" -> 2 [] c = "3" -> 3
      [] c = "4" -> 4 [] c = "5" -> 5 [] c = "6" -> 6 [] c = "7" -> 7
      [] c = "8" -> 8 [] c = "9" -> 9

RECURSIVE DecimalVal(_)
DecimalVal(s) ==
    IF s = <<>> THEN 0
    ELSE 10 * DecimalVal(SubSeq(s, 1, Len(s) - 1)) + DigitVal(s[Len(s)])

AllDigits(s) == \A i \in 1..Len(s) : s[i] \in Digits

\* float(text) for the numerals [+-]digits[.digit]: the value in tenths, or
\* ValueError for any other text.
Float(s) ==
    LET signed   == s # <<>> /\ s[1] \in {"-", "+"}
        sign     == IF signed /\ s[1] = "-" THEN -1 ELSE 1
        body     == IF signed THEN Tail(s) ELSE s
        dots     == {i \in 1..Len(body) : body[i] = "."}
        dot      == IF dots = {} THEN Len(body) + 1 ELSE CHOOSE i \in dots : TRUE
        whole    == SubSeq(body, 1, dot - 1)
        frac     == SubSeq(body, dot + 1, Len(body))
        wellFormed == /\ Cardinality(dots) <= 1
                      /\ AllDigits(whole) /\ AllDigits(frac)
                      /\ Len(frac) <= 1
                      /\ Len(whole) + Len(frac) >= 1
    IN  IF wellFormed
        THEN [err |-> NoError,
              value |-> sign * (10 * DecimalVal(whole) + DecimalVal(frac))]
        ELSE [err |-> "ValueError", value |-> 0]

\* The bounds check of parse_latlon (line 38), in tenths of a degree.
InvalidCoordinatesStrict(latitude, longitude) ==
    ~(-900 < latitude /\ latitude < 900) \/ ~(-1800 < longitude /\ longitude < 1800)

InvalidCoordinates(latitude, longitude) ==
    ~(-900 <= latitude /\ latitude <= 900) \/ ~(-1800 <= longitude /\ longitude <= 1800)

\* latlon_dict: the dict comprehension over latlon.split(', '); a text is the
\* sequence of its ', '-separated segments, a segment the sequence of its
\* ': '-separated parts.  A later key overwrites an earlier one.
RECURSIVE LatLonDict(_)
LatLonDict(segments) ==
    IF segments = <<>> THEN [err |-> NoError, dict |-> <<>>]
    ELSE LET seg  == segments[Len(segments)]
             rest == LatLonDict(SubSeq(segments, 1, Len(segments) - 1))
         IN  IF rest.err # NoError THEN rest
             ELSE IF Len(seg) < 2 THEN [err |-> "IndexError", dict |-> <<>>]
             ELSE IF Float(seg[2]).err # NoError
                  THEN [err |-> "ValueError", dict |-> <<>>]
             ELSE [err |-> NoError,
                   dict |-> [k \in DOMAIN rest.dict \cup {seg[1]} |->
                               IF k = seg[1] THEN Float(seg[2]).value
                               ELSE rest.dict[k]]]

parse_latlon(text) ==
    LET d == LatLonDict(text)
    IN  IF d.err # NoError THEN [err |-> d.err]
        ELSE IF ~({"lat", "lon"} \subseteq DOMAIN d.dict) THEN [err |-> "KeyError"]
        ELSE IF InvalidCoordinates(d.dict["lat"], d.dict["lon"])
             THEN [err |-> "ValueError"]
        ELSE [err |-> NoError,
              value |-> [latitude |-> d.dict["lat"], longitude |-> d.dict["lon"]]]

\* The pattern local@domain.tld on a text tokenised at '@' and the last '.'.
LocalParts == {"demo", "user"}
DomainLabels == {"example"}
TopLevelDomains == {"org", "com"}

is_valid_email(email) ==
    /\ Len(email) = 5
    /\ email[1] \in LocalParts
    /\ email[2] = "@"
    /\ email[3] \in DomainLabels
    /\ email[4] = "."
    /\ email[5] \in TopLevelDomains

read_email(text) ==
    IF ~is_valid_email(text) THEN [err |-> "ValueError"]
    ELSE [err |-> NoError, value |-> text]

\* fetch_information: the two existence checks, parse_latlon, read_email, and
\* the merged mapping.  A file is [exists, text].
fetch_information_op(latlon_file, email_file) ==
    IF ~latlon_file.exists THEN [err |-> "FileNotFoundError"]
    ELSE IF ~email_file.exists THEN [err |-> "FileNotFoundError"]
    ELSE LET latlon == parse_latlon(latlon_file.text)
             email  == read_email(email_file.text)
         IN  IF latlon.err # NoError THEN [err |-> latlon.err]
             ELSE IF email.err # NoError THEN [err |-> email.err]
             ELSE [err |-> NoError,
                   value |-> [latitude |-> latlon.value.latitude,
                              longitude |-> latlon.value.longitude,
                              email |-> email.value]]

\* The input files the model draws from.
LatNumerals == {<<"9", "0">>, <<"-", "9", "0">>, <<"9", "0", ".", "1">>,
                <<"-", "9", "0", ".", "1">>, <<"n", "o">>}
LonNumerals == {<<"1", "8", "0">>, <<"-", "1", "8", "0">>,
                <<"1", "8", "0", ".", "1">>, <<"-", "1", "8", "0", ".", "1">>}

LatLonTexts ==
    {<< <<"lat", x>>, <<"lon", y>> >> : x \in LatNumerals, y \in LonNumerals}
      \cup {<< <<"lat", <<"9", "0">> >> >>, << <<"lat">>, <<"lon", <<"0">> >> >>}

EmailTexts == {<<"demo", "@", "example", ".", "org">>, <<"not-an-email">>,
               <<"a", "@", "b">>, <<>>}

MissingFile == [exists |-> FALSE, text |-> <<>>]
LatLonFiles == {MissingFile} \cup {[exists |-> TRUE, text |-> t] : t \in LatLonTexts}
EmailFiles == {MissingFile} \cup {[exists |-> TRUE, text |-> t] : t \in EmailTexts}

(***************************************************************************)
(* HTTP: the retry policy of the mounted adapter (get_session_with_retries)*)
(* and of a plain requests.get                                             *)
(***************************************************************************)
\* A response is [status, retry_after, valid_json, body]; retry_after says
\* whether it carries a Retry-After header, body is the decoded JSON.
RETRY_AFTER_STATUS_CODES == {413, 429, 503}

\* Retry(total=3, backoff_factor=0.3, status_forcelist=[500, 502, 503, 504])
get_session_with_retries ==
    [total |-> 3, status_forcelist |-> {500, 502, 503, 504}]

\* requests.get(...) goes through a session whose adapters keep the default
\* max_retries: no retry, no forced status.
requests_get_mounted_retries ==
    [total |-> 3, status_forcelist |-> {500, 502, 503, 504}]

plain_requests_get == [total |-> 0, status_forcelist |-> {}]

\* Retry.is_retry for a GET: a forced status, or (while retries remain) a
\* 413/429/503 that carries Retry-After.
is_retry_any_error(retry, response) == response.status >= 400

is_retry(retry, response) ==
    \/ response.status \in retry.status_forcelist
    \/ /\ retry.total # 0
       /\ response.retry_after
       /\ response.status \in RETRY_AFTER_STATUS_CODES

\* One response handed to the adapter's send loop, then raise_for_status and
\* response.json() on the response it returns:
\*   again  - the request is re-issued with one retry fewer,
\*   err    - the exception session.get / raise_for_status / json raises.
send(retry, response) ==
    IF is_retry(retry, response)
    THEN IF retry.total - 1 < 0
         THEN [again |-> FALSE, err |-> "RetryError", retry |-> retry]
         ELSE [again |-> TRUE, err |-> NoError,
               retry |-> [retry EXCEPT !.total = @ - 1]]
    ELSE IF response.status >= 400
         THEN [again |-> FALSE, err |-> "HTTPError", retry |-> retry]
    ELSE IF ~response.valid_json
         THEN [again |-> FALSE, err |-> "JSONDecodeError", retry |-> retry]
    ELSE [again |-> FALSE, err |-> NoError, retry |-> retry]

ProblemDetail == [detail |-> "problem"]

NoResponse ==
    [status |-> 0, retry_after |-> FALSE, valid_json |-> FALSE, body |-> ProblemDetail]

ErrorResponses ==
    [status : {404, 429, 500, 502, 503, 504}, retry_after : {FALSE},
     valid_json : {TRUE}, body : {ProblemDetail}]
      \cup [status : {429}, retry_after : {TRUE}, valid_json : {TRUE},
            body : {ProblemDetail}]

(***************************************************************************)
(* Station Resolver: fetch_metadata                                        *)
(***************************************************************************)
ForecastUrl == "https://example/forecast"

\* The decoded bodies of a 200 from api.weather.gov/points.
MetadataBodies ==
    { [properties |-> [forecast |-> ForecastUrl]],
      [properties |-> [gridId |-> "OKX"]],
      [title |-> "Unexpected"] }

MetadataResponses ==
    ErrorResponses
      \cup [status : {200}, retry_after : {FALSE}, valid_json : {TRUE},
            body : MetadataBodies]
      \cup [status : {200}, retry_after : {FALSE}, valid_json : {FALSE},
            body : {ProblemDetail}]

\* metadata = response.json(); metadata["email"] = email
WithEmail(body, email) ==
    [k \in DOMAIN body \cup {"email"} |-> IF k = "email" THEN email ELSE body[k]]

(***************************************************************************)
(* Forecast Fetcher: fetch_forecast                                        *)
(***************************************************************************)
\* The guard of line 116.
MissingForecast(metadata) ==
    \/ "properties" \notin DOMAIN metadata
    \/ "forecast" \notin DOMAIN metadata["properties"]

\* One step of fetch_forecast: the guard (before the first request), then one
\* response of requests.get(forecast_url); sent says whether a request went
\* out in this step.
fetch_forecast_request_first(metadata, attempts, retry, response) ==
    LET r == send(IF attempts = 0 THEN plain_requests_get ELSE retry, response)
    IN  IF MissingForecast(metadata)
        THEN [again |-> FALSE, err |-> "KeyError", retry |-> retry, sent |-> TRUE]
        ELSE [again |-> r.again, err |-> r.err, retry |-> r.retry, sent |-> TRUE]

fetch_forecast_op(metadata, attempts, retry, response) ==
    IF attempts = 0 /\ MissingForecast(metadata)
    THEN [again |-> FALSE, err |-> "KeyError", retry |-> retry, sent |-> FALSE]
    ELSE LET r == send(IF attempts = 0 THEN plain_requests_get ELSE retry, response)
         IN  [again |-> r.again, err |-> r.err, retry |-> r.retry, sent |-> TRUE]

\* The decoded bodies of a 200 from the forecast locator.
Period1 == [temperature |-> 60,
            startTime |-> <<"2024-06-01", "T", "12:00:00", "Z">>]
Period2 == [temperature |-> 62,
            startTime |-> <<"2024-06-01", "T", "13:00:00", "-04:00">>]
PeriodNoTemperature == [startTime |-> <<"2024-06-01", "T", "14:00:00", "Z">>]
PeriodNoStartTime == [temperature |-> 65]
PeriodSet == {Period1, Period2, PeriodNoTemperature, PeriodNoStartTime}

TwoDigits(n) == IF n < 10 THEN "0" \o ToString(n) ELSE ToString(n)

\* An hourly forecast of n periods, one hour apart.
Hourly(n) ==
    [i \in 1..n |->
        [temperature |-> 50 + (i % 7),
         startTime |-> <<"2024-06-" \o TwoDigits(1 + ((i - 1) \div 24)), "T",
                         TwoDigits((i - 1) % 24) \o ":00:00", "Z">>]]

SeqsUpTo(S, n) == UNION {[1..k -> S] : k \in 0..n}

ForecastBodies ==
    {[properties |-> [periods |-> ps]] : ps \in SeqsUpTo(PeriodSet, MaxPeriods)}
      \cup {[properties |-> [periods |-> Hourly(n)]] : n \in (MaxPeriods + 1)..MaxPoints}
      \cup {[properties |-> [updated |-> "2024-06-01"]], [title |-> "Unexpected"]}

ForecastResponses ==
    ErrorResponses
      \cup [status : {200}, retry_after : {FALSE}, valid_json : {TRUE},
            body : ForecastBodies]

(***************************************************************************)
(* Forecast Parser: parse_forecast                                         *)
(***************************************************************************)
\* p['startTime'].replace("Z", "")
StripZ(text) == SelectSeq(text, LAMBDA c : c # "Z")

UtcOffsets == {"-04:00", "+00:00"}

\* datetime.fromisoformat(text).strftime('%Y-%m-%d %H:%M:%S'): the date and
\* the wall-clock time of the text, an offset dropped; ValueError for a
\* text that is no ISO timestamp.
FormatIso(text) ==
    IF /\ Len(text) \in {3, 4}
       /\ text[2] = "T"
       /\ Len(text) = 4 => text[4] \in UtcOffsets
    THEN [err |-> NoError, value |-> <<text[1], " ", text[3]>>]
    ELSE [err |-> "ValueError", value |-> <<>>]

RECURSIVE Temperatures(_)
Temperatures(periods) ==
    IF periods = <<>> THEN [err |-> NoError, value |-> <<>>]
    ELSE LET rest == Temperatures(SubSeq(periods, 1, Len(periods) - 1))
             p    == periods[Len(periods)]
         IN  IF rest.err # NoError THEN rest
             ELSE IF "temperature" \notin DOMAIN p
                  THEN [err |-> "KeyError", value |-> <<>>]
             ELSE [err |-> NoError, value |-> Append(rest.value, p["temperature"])]

RECURSIVE Times(_)
Times(periods) ==
    IF periods = <<>> THEN [err |-> NoError, value |-> <<>>]
    ELSE LET rest == Times(SubSeq(periods, 1, Len(periods) - 1))
             p    == periods[Len(periods)]
         IN  IF rest.err # NoError THEN rest
             ELSE IF "startTime" \notin DOMAIN p
                  THEN [err |-> "KeyError", value |-> <<>>]
             ELSE IF FormatIso(StripZ(p["startTime"])).err # NoError
                  THEN [err |-> "ValueError", value |-> <<>>]
             ELSE [err |-> NoError,
                   value |-> Append(rest.value, FormatIso(StripZ(p["startTime"])).value)]

\* A parser that drops a period equal to the one before it.
RECURSIVE Dedup(_)
Dedup(s) ==
    IF Len(s) <= 1 THEN s
    ELSE LET rest == Dedup(SubSeq(s, 1, Len(s) - 1))
         IN  IF s[Len(s)] = s[Len(s) - 1] THEN rest ELSE Append(rest, s[Len(s)])

PeriodsDeduplicated(forecast_data) ==
    Dedup(forecast_data["properties"]["periods"])

\* periods = forecast_data['properties']['periods']
Periods(forecast_data) == forecast_data["properties"]["periods"]

parse_forecast_op(forecast_data) ==
    IF \/ "properties" \notin DOMAIN forecast_data
       \/ "periods" \notin DOMAIN forecast_data["properties"]
    THEN [err |-> "KeyError"]
    ELSE LET periods      == Periods(forecast_data)
             temperatures == Temperatures(periods)
             times        == Times(periods)
         IN  IF temperatures.err # NoError THEN [err |-> temperatures.err]
             ELSE IF times.err # NoError THEN [err |-> times.err]
             ELSE [err |-> NoError,
                   value |-> [temperatures |-> temperatures.value,
                              times |-> times.value]]

(***************************************************************************)
(* Chart Renderer: plot_temperature                                        *)
(***************************************************************************)
NoSaveLocation == <<>>

\* f"forecast_plot_{datetime.now().strftime('%Y%m%d_%H%M%S')}.png"; now is
\* the second the stage runs in.
AutoName(now) == <<"forecast_plot_" \o ToString(now) \o ".png">>

Parent(path) == SubSeq(path, 1, Len(path) - 1)

Prefixes(path) == {SubSeq(path, 1, k) : k \in 0..Len(path)}

\* [time.replace(' ', '\n') for time in times]
FormattedTimes(times) ==
    [i \in 1..Len(times) |->
        [j \in 1..Len(times[i]) |-> IF times[i][j] = " " THEN "\n" ELSE times[i][j]]]

\* step = max(1, len(times) // 10)
TickStepOne(n) == 1

TickStep(n) == Max(1, n \div 10)

\* s[::step] for step >= 1
RECURSIVE SliceFrom(_, _, _)
SliceFrom(s, i, step) ==
    IF i > Len(s) THEN <<>> ELSE <<s[i]>> \o SliceFrom(s, i + step, step)

Stride(s, step) == SliceFrom(s, 1, step)

\* save_path.parent.mkdir(parents=True, exist_ok=True)
mkdir_no_exist_ok(parent, dirs, io) ==
    IF parent \in dirs THEN [err |-> "FileExistsError", dirs |-> dirs]
    ELSE IF io = "mkdir" THEN [err |-> "OSError", dirs |-> dirs]
    ELSE [err |-> NoError, dirs |-> dirs \cup Prefixes(parent)]

mkdir(parent, dirs, io) ==
    IF parent \in dirs THEN [err |-> NoError, dirs |-> dirs]
    ELSE IF io = "mkdir" THEN [err |-> "OSError", dirs |-> dirs]
    ELSE [err |-> NoError, dirs |-> dirs \cup Prefixes(parent)]

\* The body of plot_temperature on the series `forecast`, in the file system
\* (dirs, files), at second `now`; io names the file-system call that the
\* environment makes fail ("mkdir", "savefig") or "ok".  calls lists the
\* calls with an outside effect that were reached, written the files that
\* were written.
plot_temperature_save_first(forecast, save_location, now, dirs, files, io) ==
    LET save_path == IF save_location = NoSaveLocation THEN AutoName(now)
                     ELSE save_location
        times     == forecast["times"]
    IN  [err |-> IF times = <<>> THEN "IndexError" ELSE NoError,
         save_path |-> save_path,
         dirs |-> dirs \cup Prefixes(Parent(save_path)),
         files |-> files \cup {save_path},
         written |-> {save_path},
         calls |-> <<"mkdir", "savefig">>,
         xticks |-> <<>>, xticklabels |-> <<>>]

plot_temperature_op(forecast, save_location, now, dirs, files, io) ==
    LET save_path    == IF save_location = NoSaveLocation THEN AutoName(now)
                        ELSE save_location
        made         == mkdir(Parent(save_path), dirs, io)
        temperatures == forecast["temperatures"]
        times        == forecast["times"]
        formatted_times == FormattedTimes(times)
        step         == TickStep(Len(times))
        failed(e, cs) ==
            [err |-> e, save_path |-> save_path, dirs |-> made.dirs,
             files |-> files, written |-> {}, calls |-> cs,
             xticks |-> <<>>, xticklabels |-> <<>>]
    IN  IF made.err # NoError THEN failed(made.err, <<"mkdir">>)
        ELSE IF times = <<>> THEN failed("IndexError", <<"mkdir">>)
        ELSE IF io = "savefig" THEN failed("OSError", <<"mkdir", "savefig">>)
        ELSE [err |-> NoError, save_path |-> save_path, dirs |-> made.dirs,
              files |-> files \cup {save_path}, written |-> {save_path},
              calls |-> <<"mkdir", "savefig", "show">>,
              xticks |-> Stride(times, step),
              xticklabels |-> Stride(formatted_times, step)]

SaveLocations == {NoSaveLocation, <<"chart.png">>, <<"out", "chart.png">>}

IoOutcomes == {"ok", "mkdir", "savefig"}

(***************************************************************************)
(* The job: weather_forecast_pipeline                                      *)
(***************************************************************************)
Stages == <<"fetch_information", "fetch_metadata", "fetch_forecast",
            "parse_forecast", "plot_temperature">>

Nothing == [nothing |-> TRUE]

NoChart ==
    [err |-> NoError, save_path |-> <<>>, dirs |-> {}, files |-> {},
     written |-> {}, calls |-> <<>>, xticks |-> <<>>, xticklabels |-> <<>>]

VARIABLES
    world,            \* the inputs and remote behaviour a repeated run sees again
    run,              \* number of runs of the job started so far
    pc,               \* the op to execute next, or "idle", "success", "failure"
    err,              \* the exception that failed the run
    started,          \* the ops started in this run, in order
    config,           \* op config of fetch_information: the two input files
    info,             \* output of fetch_information
    metadata,         \* output of fetch_metadata
    forecast_data,    \* output of fetch_forecast
    forecast,         \* output of parse_forecast
    retry,            \* the Retry object of the request in flight
    metaAttempts,     \* requests fetch_metadata has issued in this run
    metaLast,         \* status and Retry-After of the last response to them
    forecastAttempts, \* requests fetch_forecast has issued in this run
    forecastLast,     \* status and Retry-After of the last response to them
    save_location,    \* the save_location input of plot_temperature
    io,               \* the file-system fault the environment injects
    chart,            \* what plot_temperature did in this run
    dirs,             \* directories that exist
    files,            \* chart files that exist
    clock,            \* the current second
    prev              \* how the previous run ended

vars == <<world, run, pc, err, started, config, info, metadata, forecast_data,
          forecast, retry, metaAttempts, metaLast, forecastAttempts, forecastLast,
          save_location, io, chart, dirs, files, clock, prev>>

Header(response) == [status |-> response.status, retry_after |-> response.retry_after]

Fresh ==
    /\ run = 0
    /\ pc = "idle"
    /\ err = NoError
    /\ started = <<>>
    /\ config = Nothing
    /\ info = Nothing
    /\ metadata = Nothing
    /\ forecast_data = Nothing
    /\ forecast = Nothing
    /\ retry = plain_requests_get
    /\ metaAttempts = 0
    /\ metaLast = Header(NoResponse)
    /\ forecastAttempts = 0
    /\ forecastLast = Header(NoResponse)
    /\ save_location = NoSaveLocation
    /\ io = "ok"
    /\ chart = NoChart
    /\ dirs = {<<>>}
    /\ files = {}
    /\ clock = 0
    /\ prev = [pc |-> "idle", save_location |-> NoSaveLocation, files |-> {}]

Init == world = Nothing /\ Fresh

\* An op raised: Dagster fails the step and skips every op downstream.
Fail(e) == pc' = "failure" /\ err' = e

\* The job is launched and its first op, fetch_information, runs on the
\* files its op config names.
FetchInformation(latlonFiles, emailFiles) ==
    /\ \E latlon_file \in latlonFiles, email_file \in emailFiles :
         LET r == fetch_information_op(latlon_file, email_file)
         IN  /\ config' = [latlon_file |-> latlon_file, email_file |-> email_file]
             /\ IF r.err = NoError
                THEN info' = r.value /\ pc' = "fetch_metadata" /\ err' = NoError
                ELSE info' = Nothing /\ Fail(r.err)
    /\ run' = run + 1
    /\ started' = <<"fetch_information">>
    /\ prev' = [pc |-> pc, save_location |-> save_location, files |-> files]
    /\ metadata' = Nothing /\ forecast_data' = Nothing /\ forecast' = Nothing
    /\ retry' = plain_requests_get
    /\ metaAttempts' = 0 /\ metaLast' = Header(NoResponse)
    /\ forecastAttempts' = 0 /\ forecastLast' = Header(NoResponse)
    /\ save_location' = NoSaveLocation /\ io' = "ok" /\ chart' = NoChart
    /\ UNCHANGED <<world, dirs, files, clock>>

\* fetch_metadata, one request of session.get per step: the first with the
\* Retry of get_session_with_retries, a re-issued one with what is left of it.
FetchMetadata(responses) ==
    /\ pc = "fetch_metadata"
    /\ \E response \in responses :
         LET r == send(IF metaAttempts = 0 THEN get_session_with_retries ELSE retry,
                       response)
         IN  /\ metaLast' = Header(response)
             /\ retry' = r.retry
             /\ IF r.again THEN UNCHANGED <<pc, err, metadata>>
                ELSE IF r.err # NoError THEN Fail(r.err) /\ UNCHANGED metadata
                ELSE /\ metadata' = WithEmail(response.body, info["email"])
                     /\ pc' = "fetch_forecast"
                     /\ UNCHANGED err
    /\ metaAttempts' = metaAttempts + 1
    /\ started' = IF metaAttempts = 0 THEN Append(started, "fetch_metadata") ELSE started
    /\ UNCHANGED <<world, run, config, info, forecast_data, forecast,
                   forecastAttempts, forecastLast, save_location, io, chart, dirs,
                   files, clock, prev>>

\* fetch_forecast: the guard, then requests.get, one request per step.
FetchForecast(responses) ==
    /\ pc = "fetch_forecast"
    /\ \E response \in responses :
         LET r == fetch_forecast_op(metadata, forecastAttempts, retry, response)
         IN  /\ retry' = r.retry
             /\ forecastAttempts' = IF r.sent THEN forecastAttempts + 1
                                    ELSE forecastAttempts
             /\ forecastLast' = IF r.sent THEN Header(response) ELSE forecastLast
             /\ IF r.again THEN UNCHANGED <<pc, err, forecast_data>>
                ELSE IF r.err # NoError THEN Fail(r.err) /\ UNCHANGED forecast_data
                ELSE /\ forecast_data' = response.body
                     /\ pc' = "parse_forecast"
                     /\ UNCHANGED err
    /\ started' = IF forecastAttempts = 0 THEN Append(started, "fetch_forecast")
                  ELSE started
    /\ UNCHANGED <<world, run, config, info, metadata, forecast, metaAttempts,
                   metaLast, save_location, io, chart, dirs, files, clock, prev>>

parse_forecast ==
    /\ pc = "parse_forecast"
    /\ LET r == parse_forecast_op(forecast_data)
       IN  IF r.err = NoError
           THEN forecast' = r.value /\ pc' = "plot_temperature" /\ UNCHANGED err
           ELSE Fail(r.err) /\ UNCHANGED forecast
    /\ started' = Append(started, "parse_forecast")
    /\ UNCHANGED <<world, run, config, info, metadata, forecast_data, retry,
                   metaAttempts, metaLast, forecastAttempts, forecastLast,
                   save_location, io, chart, dirs, files, clock, prev>>

\* plot_temperature with the save_location input the run was given, at the
\* second the op runs in.
PlotTemperature(locations) ==
    /\ pc = "plot_temperature"
    /\ \E location \in locations, now \in {clock, clock + 1}, fault \in IoOutcomes :
         LET r == plot_temperature_op(forecast, location, now, dirs, files, fault)
         IN  /\ save_location' = location
             /\ clock' = now
             /\ io' = fault
             /\ chart' = r
             /\ dirs' = r.dirs
             /\ files' = r.files
             /\ IF r.err = NoError THEN pc' = "success" /\ UNCHANGED err
                ELSE Fail(r.err)
    /\ started' = Append(started, "plot_temperature")
    /\ UNCHANGED <<world, run, config, info, metadata, forecast_data, forecast,
                   retry, metaAttempts, metaLast, forecastAttempts, forecastLast,
                   prev>>

(***************************************************************************)
(* One run of the job, on any input files and any remote behaviour         *)
(***************************************************************************)
fetch_information == pc = "idle" /\ FetchInformation(LatLonFiles, EmailFiles)

fetch_metadata == FetchMetadata(MetadataResponses)

fetch_forecast == FetchForecast(ForecastResponses)

plot_temperature == PlotTemperature(SaveLocations)

Next ==
    \/ fetch_information
    \/ fetch_metadata
    \/ fetch_forecast
    \/ parse_forecast
    \/ plot_temperature

Spec == Init /\ [][Next]_vars

(***************************************************************************)
(* The job run again and again on the same inputs: the same two files, the *)
(* same answers of the remote service, the same save_location.  The clock  *)
(* and the file-system faults stay the environment's.                      *)
(***************************************************************************)
ValidLatLonFile ==
    [exists |-> TRUE, text |-> << <<"lat", <<"9", "0">> >>, <<"lon", <<"-", "1", "8", "0">> >> >>]
ValidEmailFile ==
    [exists |-> TRUE, text |-> <<"demo", "@", "example", ".", "org">>]
OkResponse(body) ==
    [status |-> 200, retry_after |-> FALSE, valid_json |-> TRUE, body |-> body]
ServiceUnavailable ==
    [status |-> 503, retry_after |-> FALSE, valid_json |-> TRUE, body |-> ProblemDetail]

Worlds ==
    [latlon_file : {ValidLatLonFile, MissingFile},
     email_file : {ValidEmailFile},
     metadata_response : {OkResponse(b) : b \in MetadataBodies} \cup {ServiceUnavailable},
     forecast_response :
        {OkResponse([properties |-> [periods |-> ps]]) :
            ps \in SeqsUpTo({Period1, Period2}, MaxPeriods)} \cup {ServiceUnavailable},
     save_location : SaveLocations]

InitRerun == world \in Worlds /\ Fresh

rerun_fetch_information ==
    /\ pc \in {"idle", "success", "failure"}
    /\ run < MaxRuns
    /\ FetchInformation({world.latlon_file}, {world.email_file})

rerun_fetch_metadata == FetchMetadata({world.metadata_response})

rerun_fetch_forecast == FetchForecast({world.forecast_response})

rerun_plot_temperature == PlotTemperature({world.save_location})

NextRerun ==
    \/ rerun_fetch_information
    \/ rerun_fetch_metadata
    \/ rerun_fetch_forecast
    \/ parse_forecast
    \/ rerun_plot_temperature

SpecRerun == InitRerun /\ [][NextRerun]_vars

(***************************************************************************)
(* The error taxonomy of the specification, as sets of exception classes   *)
(***************************************************************************)
NotFoundError == {"FileNotFoundError"}
ValidationError == {"ValueError"}
SchemaError == {"KeyError"}
UpstreamError == {"HTTPError", "RetryError", "JSONDecodeError"}
IOError == {"OSError"}

HasStarted(stage) == \E i \in 1..Len(started) : started[i] = stage

Finished == pc \in {"success", "failure"}

\* The outputs of the first four ops, in the order of Stages.
Outputs == <<info, metadata, forecast_data, forecast>>

HasForecastUrl(m) ==
    "properties" \in DOMAIN m /\ "forecast" \in DOMAIN m["properties"]

(***************************************************************************)
(* C1  No partial success.  The ops start in the order of the job, each    *)
(* after the one before it.  A run that succeeds has started all five and  *)
(* its chart file exists at the resolved path.  A run that fails has an    *)
(* error, stopped at the op that raised (no op after it has started or     *)
(* produced an output), wrote no chart file, and created at most the       *)
(* parent directories of the chart path.                                   *)
(***************************************************************************)
C1_NoPartialSuccess ==
    /\ started = SubSeq(Stages, 1, Len(started))
    /\ pc = "success" =>
         /\ started = Stages
         /\ err = NoError
         /\ chart.written = {chart.save_path}
         /\ chart.save_path \in files
    /\ pc = "failure" =>
         /\ err # NoError
         /\ started # <<>>
         /\ \A i \in Len(started)..4 : Outputs[i] = Nothing
         /\ Len(started) < 5 => chart = NoChart
         /\ chart.written = {}
         /\ files = prev.files
         /\ dirs \subseteq {<<>>} \cup Prefixes(Parent(chart.save_path))
    /\ ~Finished => files = prev.files /\ chart = NoChart /\ err = NoError

\* A run that failed in plot_temperature, after the output directory was
\* created, with no file written.
C1_Witness ==
    /\ pc = "failure"
    /\ started = Stages
    /\ <<"out">> \in dirs
    /\ files = {}

(***************************************************************************)
(* C2  Retries of the Station Resolver.                                    *)
(***************************************************************************)
ForcedStatus == {500, 502, 503, 504}

\* C2 as stated, read on responses that carry no Retry-After header (the
\* claim speaks of statuses only): at most 3 requests; a request is re-issued
\* only after a 500, 502, 503 or 504; any other error status fails the op at
\* once.
C2_AtMostThreeAttempts ==
    /\ metaAttempts <= 3
    /\ pc = "fetch_metadata" /\ metaAttempts >= 1 /\ ~metaLast.retry_after
         => metaLast.status \in ForcedStatus
    /\ /\ metaAttempts >= 1
       /\ ~metaLast.retry_after
       /\ metaLast.status >= 400
       /\ metaLast.status \notin ForcedStatus
       => pc = "failure"

Retried(h) ==
    \/ h.status \in ForcedStatus
    \/ h.status \in {413, 429} /\ h.retry_after

\* C2 amended: at most 4 requests (the first and 3 retries); a request is
\* re-issued only after a 500, 502, 503 or 504 or after a 413 or 429 that
\* carries Retry-After; any other error status fails the op with no further
\* request, and every failure of the op is an UpstreamError.
C2_AtMostFourAttempts ==
    /\ metaAttempts <= 4
    /\ pc = "fetch_metadata" /\ metaAttempts >= 1 => Retried(metaLast)
    /\ metaAttempts >= 1 /\ metaLast.status >= 400 /\ ~Retried(metaLast)
         => pc = "failure" /\ err = "HTTPError" /\ Len(started) = 2
    /\ pc = "failure" /\ Len(started) = 2 => err \in UpstreamError

\* Three transient answers, then a fourth request that succeeds.
C2_Witness ==
    /\ metaAttempts = 4
    /\ metaLast.status = 200
    /\ pc = "fetch_forecast"

(***************************************************************************)
(* C3  The Forecast Fetcher never retries: it issues at most one GET, it   *)
(* issues exactly one whenever the metadata holds a forecast locator, and  *)
(* an error status on that GET (a 500, 502, 503 or 504 included) fails the *)
(* op with UpstreamError.                                                  *)
(***************************************************************************)
C3_SingleForecastGet ==
    /\ forecastAttempts <= 1
    /\ HasStarted("fetch_forecast") /\ HasForecastUrl(metadata) => forecastAttempts = 1
    /\ forecastAttempts >= 1 /\ forecastLast.status >= 400
         => pc = "failure" /\ err \in UpstreamError /\ Len(started) = 3

\* The single GET was answered 503 and the run failed.
C3_Witness ==
    /\ forecastAttempts = 1
    /\ forecastLast.status = 503
    /\ pc = "failure"

(***************************************************************************)
(* C4  A StationMetadata without `properties`, or whose `properties` has   *)
(* no `forecast`, fails the Forecast Fetcher with SchemaError before any   *)
(* request is issued.                                                      *)
(***************************************************************************)
C4_MissingForecastIsSchemaError ==
    HasStarted("fetch_forecast") /\ ~HasForecastUrl(metadata) =>
        /\ pc = "failure"
        /\ err \in SchemaError
        /\ Len(started) = 3
        /\ forecastAttempts = 0

\* `properties` is there, `forecast` is not.
C4_Witness ==
    /\ HasStarted("fetch_forecast")
    /\ "properties" \in DOMAIN metadata
    /\ "forecast" \notin DOMAIN metadata["properties"]
    /\ pc = "failure"

(***************************************************************************)
(* C5  For a ForecastPayload of N periods that all hold `temperature` and  *)
(* `startTime`, parse_forecast succeeds and returns N temperatures and N   *)
(* times; the i-th temperature is that of the i-th period and the i-th     *)
(* time is the date and the time of day of the i-th period's startTime,    *)
(* joined by a space.  Equal periods stay repeated.                        *)
(***************************************************************************)
CompletePayload(d) ==
    /\ "properties" \in DOMAIN d
    /\ "periods" \in DOMAIN d["properties"]
    /\ \A i \in 1..Len(d["properties"]["periods"]) :
          {"temperature", "startTime"} \subseteq DOMAIN d["properties"]["periods"][i]

C5_ParserKeepsOrder ==
    HasStarted("parse_forecast") /\ CompletePayload(forecast_data) =>
        LET periods == forecast_data["properties"]["periods"]
        IN  /\ forecast # Nothing
            /\ Len(forecast["temperatures"]) = Len(periods)
            /\ Len(forecast["times"]) = Len(periods)
            /\ \A i \in 1..Len(periods) :
                  /\ forecast["temperatures"][i] = periods[i]["temperature"]
                  /\ forecast["times"][i] =
                        <<periods[i]["startTime"][1], " ", periods[i]["startTime"][3]>>

\* Three periods, the first two equal, parsed.
C5_Witness ==
    /\ HasStarted("parse_forecast")
    /\ forecast # Nothing
    /\ forecast_data = [properties |-> [periods |-> <<Period1, Period1, Period2>>]]
    /\ forecast["temperatures"] = <<60, 60, 62>>

(***************************************************************************)
(* C6  Every ForecastSeries parse_forecast returns has as many times as    *)
(* temperatures, and at least one.                                         *)
(***************************************************************************)
C6_SeriesNonEmpty ==
    forecast # Nothing =>
        /\ Len(forecast["times"]) = Len(forecast["temperatures"])
        /\ Len(forecast["times"]) > 0

(***************************************************************************)
(* C7  plot_temperature on an empty series, with no file-system fault,     *)
(* fails with ValidationError before savefig is reached and writes no      *)
(* file.                                                                   *)
(***************************************************************************)
C7_EmptySeriesIsValidationError ==
    /\ HasStarted("plot_temperature")
    /\ forecast["times"] = <<>>
    /\ io = "ok"
    => /\ pc = "failure"
       /\ err \in ValidationError
       /\ chart.written = {}
       /\ \A i \in 1..Len(chart.calls) : chart.calls[i] # "savefig"

(***************************************************************************)
(* C8  For a coordinate text `lat: X, lon: Y` (both files present, the     *)
(* email valid) fetch_information returns latitude X and longitude Y when  *)
(* -90 <= X <= 90 and -180 <= Y <= 180, and otherwise fails with           *)
(* ValidationError before fetch_metadata starts; the coordinates that      *)
(* reach fetch_metadata are in range.                                      *)
(***************************************************************************)
\* What the numerals of the input files denote, in tenths.
Denotes ==
    { << <<"9", "0">>, 900 >>, << <<"-", "9", "0">>, -900 >>,
      << <<"9", "0", ".", "1">>, 901 >>, << <<"-", "9", "0", ".", "1">>, -901 >>,
      << <<"1", "8", "0">>, 1800 >>, << <<"-", "1", "8", "0">>, -1800 >>,
      << <<"1", "8", "0", ".", "1">>, 1801 >>,
      << <<"-", "1", "8", "0", ".", "1">>, -1801 >> }

Denoted(numeral) == (CHOOSE d \in Denotes : d[1] = numeral)[2]

IsNumeral(numeral) == \E d \in Denotes : d[1] = numeral

IsLatLonText(text) ==
    /\ Len(text) = 2
    /\ Len(text[1]) = 2 /\ text[1][1] = "lat" /\ IsNumeral(text[1][2])
    /\ Len(text[2]) = 2 /\ text[2][1] = "lon" /\ IsNumeral(text[2][2])

C8_CoordinateBounds ==
    /\ /\ HasStarted("fetch_information")
       /\ config.latlon_file.exists
       /\ config.email_file.exists
       /\ IsLatLonText(config.latlon_file.text)
       /\ config.email_file.text = <<"demo", "@", "example", ".", "org">>
       => LET X == Denoted(config.latlon_file.text[1][2])
              Y == Denoted(config.latlon_file.text[2][2])
          IN  IF -900 <= X /\ X <= 900 /\ -1800 <= Y /\ Y <= 1800
              THEN /\ info = [latitude |-> X, longitude |-> Y,
                              email |-> config.email_file.text]
                   /\ HasStarted("fetch_metadata") \/ pc = "fetch_metadata"
              ELSE /\ pc = "failure"
                   /\ err \in ValidationError
                   /\ started = <<"fetch_information">>
                   /\ info = Nothing
                   /\ metaAttempts = 0
    /\ HasStarted("fetch_metadata") =>
          /\ -900 <= info["latitude"] /\ info["latitude"] <= 900
          /\ -1800 <= info["longitude"] /\ info["longitude"] <= 1800

\* The two inclusive bounds -90 and 180 reach the Station Resolver.
C8_Witness ==
    /\ HasStarted("fetch_metadata")
    /\ info["latitude"] = -900
    /\ info["longitude"] = 1800

(***************************************************************************)
(* C9  The ticks of a chart of n >= 1 points are the points at indexes 0,  *)
(* step, 2*step, ... with step = max(1, n div 10); the tick labels are the *)
(* same points, index for index, with the space replaced by a line break;  *)
(* there are n of them when n < 10 and between 10 and 19 otherwise.        *)
(***************************************************************************)
C9_TickDownSampling ==
    pc = "success" =>
        LET times == forecast["times"]
            n     == Len(times)
            step  == IF n < 10 THEN 1 ELSE n \div 10
            count == Len(chart.xticks)
        IN  /\ n >= 1
            /\ count = ((n - 1) \div step) + 1
            /\ Len(chart.xticklabels) = count
            /\ IF n < 10 THEN count = n ELSE count >= 10 /\ count <= 19
            /\ \A k \in 1..count :
                  /\ chart.xticks[k] = times[(k - 1) * step + 1]
                  /\ chart.xticklabels[k] =
                        <<times[(k - 1) * step + 1][1], "\n",
                          times[(k - 1) * step + 1][3]>>

\* A chart of 29 points: stride 2, 15 labels.
C9_Witness ==
    /\ pc = "success"
    /\ Len(forecast["times"]) = 29
    /\ Len(chart.xticks) = 15
    /\ chart.xticks[15] = <<"2024-06-02", " ", "04:00:00">>

(***************************************************************************)
(* C10  Idempotence on the output.  When a run that wrote its chart to an  *)
(* explicit save_location is followed by a run on the same inputs and the  *)
(* same save_location, and the file system does not fail, the second run   *)
(* succeeds and leaves the same set of chart files: the file at            *)
(* save_location, and after two runs nothing else.                         *)
(***************************************************************************)
C10_RerunOverwrites ==
    /\ run >= 2
    /\ prev.pc = "success"
    /\ prev.save_location # NoSaveLocation
    /\ HasStarted("plot_temperature")
    /\ io = "ok"
    => /\ pc = "success"
       /\ save_location = prev.save_location
       /\ chart.written = {save_location}
       /\ files = prev.files
       /\ save_location \in files
       /\ run = 2 => files = {save_location}

\* The second run wrote out/chart.png again.
C10_Witness ==
    /\ run = 2
    /\ prev.pc = "success"
    /\ pc = "success"
    /\ save_location = <<"out", "chart.png">>
    /\ files = {<<"out", "chart.png">>}

====
